---- MODULE Spec2Model ----
(***************************************************************************)
(* Reddit Lead Manager: the LeadManager table (lead_manager.py), its CSV   *)
(* persistence (storage.py), the text cleaning of utils.py and the status  *)
(* aggregation of analytics.py.                                            *)
(*                                                                         *)
(* A text is a sequence of tokens; a token is a TLA+ string standing for a *)
(* fixed run of characters (" " and "\n" are the whitespace tokens).  A    *)
(* DataFrame cell is either a string or the missing value NaN.  A CSV file *)
(* holds texts only.  The pandas behaviour modelled is that of pandas 2.x. *)
(***************************************************************************)
EXTENDS Integers, Sequences, FiniteSets, TLC

VARIABLES leads_df, progress_file, call, ncalls

vars == <<leads_df, progress_file, call, ncalls>>

----------------------------------------------------------------------------
(* Bounds of the model *)

MaxCalls == 3     \* operations run in one behaviour

----------------------------------------------------------------------------
(* Cells, columns, tables *)

NaN == [na |-> TRUE, s |-> <<>>]

Str(s) == [na |-> FALSE, s |-> s]

isna(c) == c.na

required_columns ==
    <<"summary", "lowHangingFruit", "originalPost", "solution", "date", "url", "subreddit">>

text_columns == <<"summary", "lowHangingFruit", "originalPost", "solution">>

table_columns == required_columns \o <<"status", "notes">>

Range(s) == {s[i] : i \in DOMAIN s}

AllColumns == Range(table_columns)

status_order == <<"New", "In Progress", "Contacted", "Closed">>

\* A row of a DataFrame with every cell missing.
NaNRow == [c \in AllColumns |-> NaN]

\* pd.DataFrame(columns=[...]) of load_leads: the nine columns, no row.
EmptyFrame == [cols |-> AllColumns, index |-> <<>>, rows |-> <<>>]

\* df.empty
empty(df) == Len(df.rows) = 0

\* Position of index label idx in df (0 when the label is not in the index).
Loc(df, idx) ==
    IF \E i \in DOMAIN df.index : df.index[i] = idx
    THEN CHOOSE i \in DOMAIN df.index : df.index[i] = idx
    ELSE 0

----------------------------------------------------------------------------
(* utils.clean_text *)

Whitespace == {" ", "\n"}

RECURSIVE CollapseRuns(_, _, _, _)
\* re.sub(ch{keep+1,}, ch * keep, s): a run of ch longer than keep is cut to keep.
CollapseRuns(s, ch, keep, run) ==
    IF s = <<>> THEN <<>>
    ELSE IF Head(s) = ch
         THEN (IF run < keep THEN <<ch>> ELSE <<>>)
              \o CollapseRuns(Tail(s), ch, keep, run + 1)
         ELSE <<Head(s)>> \o CollapseRuns(Tail(s), ch, keep, 0)

RECURSIVE LStrip(_)
LStrip(s) == IF s # <<>> /\ Head(s) \in Whitespace THEN LStrip(Tail(s)) ELSE s

RECURSIVE RStrip(_)
RStrip(s) ==
    IF s # <<>> /\ s[Len(s)] \in Whitespace THEN RStrip(SubSeq(s, 1, Len(s) - 1)) ELSE s

strip(s) == RStrip(LStrip(s))

clean_text(text) ==
    IF isna(text) THEN Str(<<>>)
    ELSE Str(strip(CollapseRuns(CollapseRuns(text.s, "\n", 2, 0), " ", 1, 0)))

----------------------------------------------------------------------------
(* CSV files: DataFrame.to_csv(index=False) and pd.read_csv *)

\* The texts pd.read_csv reads as a missing value (of those over the token alphabet).
na_values == {<<>>, <<"NA">>}

read_cell(t) == IF t \in na_values THEN NaN ELSE Str(t)

write_cell(c) == IF isna(c) THEN <<>> ELSE c.s

NoFile == [exists |-> FALSE, cols |-> {}, rows |-> <<>>]

read_csv(file) ==
    [cols  |-> file.cols,
     index |-> [i \in 1..Len(file.rows) |-> i - 1],
     rows  |-> [i \in 1..Len(file.rows) |->
                  [c \in AllColumns |->
                     IF c \in file.cols THEN read_cell(file.rows[i][c]) ELSE NaN]]]

to_csv(df) ==
    [exists |-> TRUE,
     cols   |-> df.cols,
     rows   |-> [i \in 1..Len(df.rows) |->
                   [c \in AllColumns |->
                      IF c \in df.cols THEN write_cell(df.rows[i][c]) ELSE <<>>]]]

\* LocalStorage.load_progress: <<>> stands for None (no file), <<df>> for a table.
load_progress(file) == IF file.exists THEN <<read_csv(file)>> ELSE <<>>

\* LocalStorage.save_progress: the file is overwritten with the whole table.
save_progress(df) == to_csv(df)

----------------------------------------------------------------------------
(* DataFrame accessors *)

\* df.at[idx, col] = v: sets the cell, or appends a row labelled idx whose other
\* cells are missing when idx is not in the index.
set_at(df, idx, col, v) ==
    IF Loc(df, idx) # 0
    THEN [df EXCEPT !.rows[Loc(df, idx)][col] = v]
    ELSE [df EXCEPT !.index = Append(@, idx),
                    !.rows = Append(@, [NaNRow EXCEPT ![col] = v])]

\* df[col]: the cells of a column, row by row.
column(df, col) == [i \in 1..Len(df.rows) |-> df.rows[i][col]]

\* df[col] = values
assign(df, col, values) ==
    [cols  |-> df.cols \cup {col},
     index |-> df.index,
     rows  |-> [i \in 1..Len(df.rows) |-> [df.rows[i] EXCEPT ![col] = values[i]]]]

\* df[col] = value, the same in every row
assign_all(df, col, value) == assign(df, col, [i \in 1..Len(df.rows) |-> value])

\* series.fillna('').astype(str)
fillna_str(series) ==
    [i \in 1..Len(series) |-> IF isna(series[i]) THEN Str(<<>>) ELSE series[i]]

\* pd.api.types.is_string_dtype(df[col]): every cell of the column is a string.
is_string_dtype(df, col) == \A i \in 1..Len(df.rows) : ~isna(df.rows[i][col])

\* pd.Series(values, index=keys).to_dict(): for a repeated key the last row wins.
to_dict(values, keys) ==
    [u \in Range(keys) |->
        LET last == CHOOSE i \in 1..Len(keys) :
                       /\ keys[i] = u
                       /\ \A j \in 1..Len(keys) : keys[j] = u => j <= i
        IN  values[last]]

\* df.loc[df.url.isin(mapping.keys()), col] = df.url.map(mapping)
assign_mapped(df, col, mapping) ==
    assign(df, col, [i \in 1..Len(df.rows) |->
                       IF df.rows[i]["url"] \in DOMAIN mapping
                       THEN mapping[df.rows[i]["url"]] ELSE df.rows[i][col]])

RECURSIVE join(_, _)
\* sep.join(names)
join(sep, names) ==
    IF names = <<>> THEN <<>>
    ELSE IF Len(names) = 1 THEN names
    ELSE <<Head(names), sep>> \o join(sep, Tail(names))

----------------------------------------------------------------------------
(* LeadManager.  Every operation yields an outcome: the table it leaves in    *)
(* memory, the files it handed to save_progress (in order), whether it        *)
(* returned normally, and what it returned.                                   *)

Outcome(df, saves, ok, result) ==
    [df |-> df, saves |-> saves, ok |-> ok, result |-> result]

load_leads(file) ==
    LET loaded == load_progress(file)
    IN  IF loaded = <<>> THEN EmptyFrame ELSE loaded[1]

\* Variant: only the first missing column is reported.
missing_columns_first(new_leads) ==
    SubSeq(SelectSeq(required_columns, LAMBDA col : col \notin new_leads.cols), 1, 1)

missing_columns(new_leads) ==
    SelectSeq(required_columns, LAMBDA col : col \notin new_leads.cols)

\* Lines 39-51: clean the text columns, add the status and notes columns.
prepare(new_leads) ==
    LET cleaned == [cols  |-> new_leads.cols,
                    index |-> new_leads.index,
                    rows  |-> [i \in 1..Len(new_leads.rows) |->
                                 [c \in AllColumns |->
                                    IF c \in Range(text_columns)
                                    THEN clean_text(new_leads.rows[i][c])
                                    ELSE new_leads.rows[i][c]]]]
        withStatus == IF "status" \notin cleaned.cols
                      THEN assign_all(cleaned, "status", Str(<<"New">>))
                      ELSE cleaned
        withNotes == IF "notes" \notin withStatus.cols
                     THEN assign_all(withStatus, "notes", Str(<<>>))
                     ELSE withStatus
    IN  assign(withNotes, "notes", fillna_str(column(withNotes, "notes")))

\* Variant: the stored status is carried over, the stored notes are not.
merge_status_only(existing, new_leads) ==
    IF ~empty(existing)
    THEN assign_mapped(new_leads, "status",
             to_dict(column(existing, "status"), column(existing, "url")))
    ELSE new_leads

\* Variant: a row with a known url keeps every stored field (merge, not replace).
merge_keep_old(existing, new_leads) ==
    IF ~empty(existing)
    THEN LET stored == to_dict(assign(existing, "notes",
                                      fillna_str(column(existing, "notes"))).rows,
                               column(existing, "url"))
         IN  [new_leads EXCEPT !.rows =
                 [i \in 1..Len(new_leads.rows) |->
                     IF new_leads.rows[i]["url"] \in DOMAIN stored
                     THEN stored[new_leads.rows[i]["url"]]
                     ELSE new_leads.rows[i]]]
    ELSE new_leads

\* Lines 53-70: carry the stored status and notes over to the rows with a known url.
merge(existing, new_leads) ==
    IF ~empty(existing)
    THEN LET existing_status ==
                 to_dict(column(existing, "status"), column(existing, "url"))
             existing_notes ==
                 to_dict(fillna_str(column(existing, "notes")), column(existing, "url"))
         IN  assign_mapped(assign_mapped(new_leads, "status", existing_status),
                           "notes", existing_notes)
    ELSE new_leads

sync_leads(df, uploaded_file) ==
    LET new_leads == read_csv(uploaded_file)
        missing == missing_columns(new_leads)
    IN  IF missing # <<>>
        THEN Outcome(df, <<>>, TRUE,
                 [success |-> FALSE,
                  error |-> <<"Missing required columns: ">> \o join(", ", missing)])
        ELSE LET merged == merge(df, prepare(new_leads))
             IN  Outcome(merged, <<save_progress(merged)>>, TRUE,
                     [success |-> TRUE, error |-> <<>>])

update_lead_status(df, idx, status) ==
    LET updated == set_at(df, idx, "status", status)
    IN  Outcome(updated, <<save_progress(updated)>>, TRUE, <<>>)

update_lead_notes(df, idx, notes) ==
    LET notes_value == IF isna(notes) THEN Str(<<>>) ELSE Str(strip(notes.s))
        typed == IF ~is_string_dtype(df, "notes")
                 THEN assign(df, "notes", fillna_str(column(df, "notes")))
                 ELSE df
        updated == set_at(typed, idx, "notes", notes_value)
    IN  Outcome(updated, <<save_progress(updated)>>, TRUE, <<>>)

RECURSIVE status_loop(_, _, _)
status_loop(df, indices, status) ==
    IF indices = <<>> THEN df
    ELSE status_loop(set_at(df, Head(indices), "status", status), Tail(indices), status)

\* Variant: the table is saved after every index instead of once after the loop.
bulk_update_status_save_each(df, indices, status) ==
    Outcome(status_loop(df, indices, status),
            [i \in 1..Len(indices) |->
                save_progress(status_loop(df, SubSeq(indices, 1, i), status))],
            TRUE, <<>>)

bulk_update_status(df, indices, status) ==
    LET updated == status_loop(df, indices, status)
    IN  Outcome(updated, <<save_progress(updated)>>, TRUE, <<>>)

\* Variant: the appended line does not start on a new line.
formatted_note_no_newline(timestamp, notes) == <<"[", timestamp, "] ">> \o notes

\* f"\n[{timestamp}] {notes}"
formatted_note(timestamp, notes) == <<"\n[", timestamp, "] ">> \o notes

RECURSIVE notes_loop(_, _, _)
\* The loop of bulk_append_notes; reading .at[idx, 'notes'] of a label that is not
\* in the index raises KeyError, and the rows changed before it stay changed.
notes_loop(df, indices, note) ==
    IF indices = <<>> THEN [df |-> df, raised |-> FALSE]
    ELSE IF Loc(df, Head(indices)) = 0 THEN [df |-> df, raised |-> TRUE]
    ELSE LET current == df.rows[Loc(df, Head(indices))]["notes"]
             current_notes == IF isna(current) THEN <<>> ELSE current.s
         IN  notes_loop(set_at(df, Head(indices), "notes", Str(current_notes \o note)),
                        Tail(indices), note)

bulk_append_notes(df, indices, notes, timestamp) ==
    LET looped == notes_loop(df, indices, formatted_note(timestamp, notes))
    IN  IF looped.raised
        THEN Outcome(looped.df, <<>>, FALSE, <<>>)
        ELSE Outcome(looped.df, <<save_progress(looped.df)>>, TRUE, <<>>)

----------------------------------------------------------------------------
(* AnalyticsManager *)

\* df[col].value_counts(): the count of every value of the column, missing excluded.
value_counts(df, col) ==
    [v \in {df.rows[i][col] : i \in 1..Len(df.rows)} \ {NaN} |->
        Cardinality({i \in 1..Len(df.rows) : df.rows[i][col] = v})]

\* counts.reindex(order, fill_value=fill)
reindex(counts, order, fill) ==
    [i \in 1..Len(order) |->
        IF Str(<<order[i]>>) \in DOMAIN counts THEN counts[Str(<<order[i]>>)] ELSE fill]

\* Variant: no reindex, so only the statuses that occur are listed.
get_status_distribution_no_reindex(df) ==
    IF empty(df) THEN [labels |-> <<>>, values |-> <<>>]
    ELSE LET counts == value_counts(df, "status")
             present == SelectSeq(status_order, LAMBDA st : Str(<<st>>) \in DOMAIN counts)
         IN  [labels |-> present, values |-> reindex(counts, present, 0)]

get_status_distribution(df) ==
    IF empty(df) THEN [labels |-> <<>>, values |-> <<>>]
    ELSE [labels |-> status_order,
          values |-> reindex(value_counts(df, "status"), status_order, 0)]

\* status_counts.get(status, 0)
get_count(counts, status) ==
    IF Str(<<status>>) \in DOMAIN counts THEN counts[Str(<<status>>)] ELSE 0

\* A percentage, num / den * 100, kept as the pair of its integer operands.
Percent(num, den) == [num |-> num * 100, den |-> den]

RECURSIVE funnel_loop(_, _, _, _)
\* The loop of get_funnel_data: each entry holds the running count, which is then
\* lowered by the number of records of the entry's status.
funnel_loop(order, status_counts, cumulative_count, total_leads) ==
    IF order = <<>> THEN <<>>
    ELSE <<[status |-> Head(order),
            count |-> cumulative_count,
            percentage |-> Percent(cumulative_count, total_leads)]>>
         \o funnel_loop(Tail(order), status_counts,
                        cumulative_count - get_count(status_counts, Head(order)),
                        total_leads)

\* Variant: each entry holds the number of records of its own status.
get_funnel_data_per_status(df) ==
    IF empty(df) THEN <<>>
    ELSE [k \in 1..Len(status_order) |->
            [status |-> status_order[k],
             count |-> get_count(value_counts(df, "status"), status_order[k]),
             percentage |-> Percent(get_count(value_counts(df, "status"), status_order[k]),
                                    Len(df.rows))]]

get_funnel_data(df) ==
    IF empty(df) THEN <<>>
    ELSE funnel_loop(status_order, value_counts(df, "status"), Len(df.rows), Len(df.rows))

\* The number of characters of a token of a notes text.
TokenLen(token) ==
    CASE token \in {"2026-11-01 07:56", "2026-11-01 07:57"} -> 16
      [] token = "called" -> 6
      [] token \in {"\n[", "] ", "n1", "NA"} -> 2
      [] OTHER -> 1

RECURSIVE str_len(_)
\* Series.str.len() of one cell: the number of characters of the string.
str_len(text) == IF text = <<>> THEN 0 ELSE TokenLen(Head(text)) + str_len(Tail(text))

RECURSIVE sum(_)
sum(values) == IF values = <<>> THEN 0 ELSE Head(values) + sum(Tail(values))

\* Series.mean(), kept as the pair of the sum and the number of values.
mean(values) == [num |-> sum(values), den |-> Len(values)]

\* The number 0 as such a pair.
Zero == [num |-> 0, den |-> 1]

\* get_response_stats writes the filled notes column back into the table it got
\* from get_leads, which is the table of the LeadManager itself.
get_response_stats(df) ==
    IF empty(df)
    THEN Outcome(df, <<>>, TRUE,
             [leads_with_notes |-> 0, notes_percentage |-> Zero, avg_notes_length |-> Zero])
    ELSE LET filled == assign(df, "notes", fillna_str(column(df, "notes")))
             lengths == [i \in 1..Len(filled.rows) |-> str_len(filled.rows[i]["notes"].s)]
             leads_with_notes == Cardinality({ i \in 1..Len(lengths) : lengths[i] > 0 })
         IN  Outcome(filled, <<>>, TRUE,
                 [leads_with_notes |-> leads_with_notes,
                  notes_percentage |-> Percent(leads_with_notes, Len(filled.rows)),
                  avg_notes_length |-> IF leads_with_notes > 0 THEN mean(lengths) ELSE Zero])

\* value_counts().nlargest(10): the ten most frequent values.
nlargest_n == 10

\* The orders in which value_counts().nlargest(10) can list the values: by falling
\* count; values of equal count come in an order the sort is free to choose.
nlargest(counts) ==
    LET k == IF Cardinality(DOMAIN counts) < nlargest_n
             THEN Cardinality(DOMAIN counts) ELSE nlargest_n
    IN  { labels \in [1..k -> DOMAIN counts] :
            /\ \A i, j \in 1..k : i < j =>
                   /\ labels[i] # labels[j]
                   /\ counts[labels[i]] >= counts[labels[j]]
            /\ \A v \in DOMAIN counts :
                   (\A i \in 1..k : labels[i] # v) =>
                       \A i \in 1..k : counts[labels[i]] >= counts[v] }

\* The results get_subreddit_distribution can return for the table.
get_subreddit_distribution(df) ==
    IF empty(df) THEN { [labels |-> <<>>, values |-> <<>>] }
    ELSE LET subreddit_counts == value_counts(df, "subreddit")
         IN  { [labels |-> [i \in 1..Len(labels) |-> labels[i].s],
                values |-> [i \in 1..Len(labels) |-> subreddit_counts[labels[i]]]] :
               labels \in nlargest(subreddit_counts) }

\* calculate_rate of get_conversion_rates
calculate_rate(status_counts, from_status, to_status) ==
    LET from_count == get_count(status_counts, from_status)
        to_count == get_count(status_counts, to_status)
    IN  IF from_count > 0 THEN Percent(to_count, from_count) ELSE Zero

get_conversion_rates(df) ==
    IF empty(df)
    THEN [new_to_progress |-> Zero, progress_to_contacted |-> Zero,
          contacted_to_closed |-> Zero]
    ELSE LET status_counts == value_counts(df, "status")
         IN  [new_to_progress |-> calculate_rate(status_counts, "New", "In Progress"),
              progress_to_contacted |->
                  calculate_rate(status_counts, "In Progress", "Contacted"),
              contacted_to_closed |->
                  calculate_rate(status_counts, "Contacted", "Closed")]

\* A cell of a datetime column; s is the text to_csv writes for it.
Timestamp(text) == [na |-> FALSE, s |-> <<text>>, dt |-> TRUE]

\* The date texts pd.to_datetime parses: the text the Timestamp prints as, and its
\* calendar day counted in days from 2025-12-31.
Dates ==
    [t \in {"2026-10-30T09:15:00.000-04:00", "2026-10-30 09:15:00-04:00",
            "2026-09-15T10:00:00.000-04:00", "2026-09-15 10:00:00-04:00"} |->
        IF t \in {"2026-10-30T09:15:00.000-04:00", "2026-10-30 09:15:00-04:00"}
        THEN [text |-> "2026-10-30 09:15:00-04:00", date |-> 303]
        ELSE [text |-> "2026-09-15 10:00:00-04:00", date |-> 258]]

\* Whether pd.to_datetime accepts the cell: a missing value, a Timestamp, or a
\* string that is a date.
parses(cell) == isna(cell) \/ (Len(cell.s) = 1 /\ cell.s[1] \in DOMAIN Dates)

\* pd.to_datetime of a column: missing values become NaT.
to_datetime(values) ==
    [i \in 1..Len(values) |->
        IF isna(values[i]) THEN NaN ELSE Timestamp(Dates[values[i].s[1]].text)]

\* .dt.date of a cell of a datetime column
dt_date(cell) == Dates[cell.s[1]].date

\* get_daily_activity(days=30)
days == 30

\* get_daily_activity writes the converted date column back into the table of the
\* LeadManager; pd.to_datetime raises on a text that is no date.  end_date is the
\* calendar day of datetime.now(); a day of the result stands for its '%Y-%m-%d'.
get_daily_activity(df, end_date) ==
    IF empty(df) THEN Outcome(df, <<>>, TRUE, [dates |-> <<>>, counts |-> <<>>])
    ELSE IF \E i \in 1..Len(df.rows) : ~parses(df.rows[i]["date"])
    THEN Outcome(df, <<>>, FALSE, <<>>)
    ELSE LET converted == assign(df, "date", to_datetime(column(df, "date")))
             start_date == end_date - days
             date_range == [i \in 1..(days + 1) |-> start_date + i - 1]
             kept == { i \in 1..Len(converted.rows) :
                         /\ ~isna(converted.rows[i]["date"])
                         /\ dt_date(converted.rows[i]["date"]) >= start_date }
         IN  Outcome(converted, <<>>, TRUE,
                 [dates |-> date_range,
                  counts |-> [i \in 1..(days + 1) |->
                      Cardinality({ r \in kept :
                          dt_date(converted.rows[r]["date"]) = date_range[i] })]])

----------------------------------------------------------------------------
(* Inputs *)

\* A row of an uploaded file.  The url cell is never blank; no text is numeric.
ImportRow(summary, date, url, subreddit, status, notes) ==
    [c \in AllColumns |->
        CASE c = "summary" -> summary
          [] c = "lowHangingFruit" -> <<"easy">>
          [] c = "originalPost" -> <<"post", " ", " ", "text">>
          [] c = "solution" -> <<>>
          [] c = "date" -> date
          [] c = "url" -> url
          [] c = "subreddit" -> subreddit
          [] c = "status" -> status
          [] c = "notes" -> notes]

R1 == ImportRow(<<" ", "a">>, <<"2026-10-30T09:15:00.000-04:00">>, <<"u1">>, <<"r1">>, <<"Closed">>, <<"n1">>)

R2 == ImportRow(<<"b">>, <<"2026-09-15T10:00:00.000-04:00">>, <<"u2">>, <<"r2">>, <<>>, <<>>)

\* The url of R1 again, with other data.
R3 == ImportRow(<<"c">>, <<"soon">>, <<"u1">>, <<"r1">>, <<"Bogus">>, <<"NA">>)

ImportTables == { <<>>, <<R1>>, <<R2>>, <<R1, R2>>, <<R3, R1>> }

\* An uploaded file: the cells of the columns it does not have are not there.
ImportFile(cols, rows) ==
    [exists |-> TRUE,
     cols   |-> cols,
     rows   |-> [i \in 1..Len(rows) |->
                   [c \in AllColumns |-> IF c \in cols THEN rows[i][c] ELSE <<>>]]]

\* Files with and without the optional columns, and files that lack required ones.
ImportFiles ==
    { ImportFile(cols, rows) : cols \in { AllColumns, AllColumns \ {"status", "notes"} },
                               rows \in ImportTables }
    \cup { ImportFile(AllColumns \ drop, <<R1>>) : drop \in { {"url"}, {"summary", "date"} } }

StatusInputs == { Str(<<"Contacted">>), Str(<<"Bogus">>) }

\* None, and a text to strip.
NotesInputs == { NaN, Str(<<" ", "a", " ">>) }

AppendInputs == { <<"called">> }

\* datetime.now().strftime("%Y-%m-%d %H:%M")
Timestamps == { "2026-11-01 07:56", "2026-11-01 07:57" }

\* The calendar day of datetime.now() in get_daily_activity, in days from 2025-12-31:
\* 2026-11-01 and 2026-10-15.
Todays == { 305, 288 }

\* The index labels passed to the update calls.
IndexLabels == {0, 1}

\* list(st.session_state.selected_leads): index labels, each at most once.
IndexLists == { <<>>, <<0>>, <<1>>, <<0, 1>>, <<1, 0>> }

----------------------------------------------------------------------------
(* The state machine *)

NoArgs == [file |-> NoFile, indices |-> <<>>, value |-> NaN, text |-> <<>>,
           timestamp |-> ""]

\* What the operation just run leaves on disk: the last file it saved, if any.
Saved(out) == IF out.saves = <<>> THEN progress_file ELSE out.saves[Len(out.saves)]

\* The record of the operation just run: its name, arguments and outcome, and the
\* table and the file it ran on.
Called(op, args, out) ==
    [op |-> op, args |-> args, ok |-> out.ok, result |-> out.result,
     saves |-> out.saves, before |-> leads_df, beforeFile |-> progress_file]

Init ==
    /\ ncalls = 0
    /\ progress_file = NoFile
    /\ leads_df = load_leads(NoFile)
    /\ call = [op |-> "init", args |-> NoArgs, ok |-> TRUE, result |-> <<>>,
               saves |-> <<>>, before |-> EmptyFrame, beforeFile |-> NoFile]

\* LeadManager(storage): a new run of the application loads the table from disk.
Restart ==
    /\ ncalls < MaxCalls
    /\ ncalls' = ncalls + 1
    /\ leads_df' = load_leads(progress_file)
    /\ progress_file' = progress_file
    /\ call' = Called("init", NoArgs, Outcome(leads_df', <<>>, TRUE, <<>>))

SyncLeads ==
    /\ ncalls < MaxCalls
    /\ ncalls' = ncalls + 1
    /\ \E file \in ImportFiles :
          LET out == sync_leads(leads_df, file)
          IN  /\ leads_df' = out.df
              /\ progress_file' = Saved(out)
              /\ call' = Called("sync_leads", [NoArgs EXCEPT !.file = file], out)

UpdateLeadStatus ==
    /\ ncalls < MaxCalls
    /\ ncalls' = ncalls + 1
    /\ \E idx \in IndexLabels, status \in StatusInputs :
          LET out == update_lead_status(leads_df, idx, status)
          IN  /\ leads_df' = out.df
              /\ progress_file' = Saved(out)
              /\ call' = Called("update_lead_status",
                            [NoArgs EXCEPT !.indices = <<idx>>, !.value = status], out)

UpdateLeadNotes ==
    /\ ncalls < MaxCalls
    /\ ncalls' = ncalls + 1
    /\ \E idx \in IndexLabels, notes \in NotesInputs :
          LET out == update_lead_notes(leads_df, idx, notes)
          IN  /\ leads_df' = out.df
              /\ progress_file' = Saved(out)
              /\ call' = Called("update_lead_notes",
                            [NoArgs EXCEPT !.indices = <<idx>>, !.value = notes], out)

BulkUpdateStatus ==
    /\ ncalls < MaxCalls
    /\ ncalls' = ncalls + 1
    /\ \E indices \in IndexLists, status \in StatusInputs :
          LET out == bulk_update_status(leads_df, indices, status)
          IN  /\ leads_df' = out.df
              /\ progress_file' = Saved(out)
              /\ call' = Called("bulk_update_status",
                            [NoArgs EXCEPT !.indices = indices, !.value = status], out)

BulkAppendNotes ==
    /\ ncalls < MaxCalls
    /\ ncalls' = ncalls + 1
    /\ \E indices \in IndexLists, notes \in AppendInputs, timestamp \in Timestamps :
          LET out == bulk_append_notes(leads_df, indices, notes, timestamp)
          IN  /\ leads_df' = out.df
              /\ progress_file' = Saved(out)
              /\ call' = Called("bulk_append_notes",
                            [NoArgs EXCEPT !.indices = indices, !.text = notes,
                                           !.timestamp = timestamp], out)

GetStatusDistribution ==
    /\ ncalls < MaxCalls
    /\ ncalls' = ncalls + 1
    /\ leads_df' = leads_df
    /\ progress_file' = progress_file
    /\ call' = Called("get_status_distribution", NoArgs,
                  Outcome(leads_df, <<>>, TRUE, get_status_distribution(leads_df)))

GetFunnelData ==
    /\ ncalls < MaxCalls
    /\ ncalls' = ncalls + 1
    /\ leads_df' = leads_df
    /\ progress_file' = progress_file
    /\ call' = Called("get_funnel_data", NoArgs,
                  Outcome(leads_df, <<>>, TRUE, get_funnel_data(leads_df)))

GetResponseStats ==
    /\ ncalls < MaxCalls
    /\ ncalls' = ncalls + 1
    /\ LET out == get_response_stats(leads_df)
       IN  /\ leads_df' = out.df
           /\ progress_file' = Saved(out)
           /\ call' = Called("get_response_stats", NoArgs, out)

GetSubredditDistribution ==
    /\ ncalls < MaxCalls
    /\ ncalls' = ncalls + 1
    /\ leads_df' = leads_df
    /\ progress_file' = progress_file
    /\ \E result \in get_subreddit_distribution(leads_df) :
          call' = Called("get_subreddit_distribution", NoArgs,
                     Outcome(leads_df, <<>>, TRUE, result))

GetConversionRates ==
    /\ ncalls < MaxCalls
    /\ ncalls' = ncalls + 1
    /\ leads_df' = leads_df
    /\ progress_file' = progress_file
    /\ call' = Called("get_conversion_rates", NoArgs,
                  Outcome(leads_df, <<>>, TRUE, get_conversion_rates(leads_df)))

GetDailyActivity ==
    /\ ncalls < MaxCalls
    /\ ncalls' = ncalls + 1
    /\ \E end_date \in Todays :
          LET out == get_daily_activity(leads_df, end_date)
          IN  /\ leads_df' = out.df
              /\ progress_file' = Saved(out)
              /\ call' = Called("get_daily_activity", NoArgs, out)

Next ==
    \/ Restart
    \/ SyncLeads
    \/ UpdateLeadStatus
    \/ UpdateLeadNotes
    \/ BulkUpdateStatus
    \/ BulkAppendNotes
    \/ GetStatusDistribution
    \/ GetFunnelData
    \/ GetResponseStats
    \/ GetSubredditDistribution
    \/ GetConversionRates
    \/ GetDailyActivity

Spec == Init /\ [][Next]_vars

----------------------------------------------------------------------------
(* Properties *)

ValidStatuses == { Str(<<status_order[i]>>) : i \in DOMAIN status_order }

Mutating ==
    {"sync_leads", "update_lead_status", "update_lead_notes", "bulk_update_status",
     "bulk_append_notes"}

Urls(df) == { df.rows[i]["url"] : i \in 1..Len(df.rows) }

\* The last row of df with url u.
LastWithUrl(df, u) ==
    df.rows[CHOOSE i \in 1..Len(df.rows) :
               /\ df.rows[i]["url"] = u
               /\ \A j \in i + 1..Len(df.rows) : df.rows[j]["url"] # u]

\* The table pd.read_csv makes of the file of the last sync_leads call.
Imported == read_csv(call.args.file)

SyncSucceeded == call.op = "sync_leads" /\ call.result.success

OrEmpty(c) == IF c.na THEN Str(<<>>) ELSE c

\* C1, as stated: after a successful sync_leads every imported row whose url is in
\* the existing table carries an existing row's status and notes, and every other
\* imported row has status 'New' and notes '', whatever the import supplies.
C1_DefaultsRegardlessOfImport ==
    SyncSucceeded =>
        \A i \in 1..Len(leads_df.rows) :
            LET row == leads_df.rows[i]
            IN  IF row["url"] \in Urls(call.before)
                THEN \E j \in 1..Len(call.before.rows) :
                        /\ call.before.rows[j]["url"] = row["url"]
                        /\ call.before.rows[j]["status"] = row["status"]
                        /\ call.before.rows[j]["notes"] = row["notes"]
                ELSE row["status"] = Str(<<"New">>) /\ row["notes"] = Str(<<>>)

\* C1, amended: after a successful sync_leads the table has one row per imported
\* row; a row whose url is in the existing table carries the status and the notes
\* (a missing value as '') of the last existing row with that url; any other row has
\* the status the import supplies, 'New' when the import has no status column, and
\* the notes the import supplies (a missing value as ''), '' when it has no notes
\* column.
C1_SyncKeepsLocalProgress ==
    SyncSucceeded =>
        /\ Len(leads_df.rows) = Len(Imported.rows)
        /\ \A i \in 1..Len(leads_df.rows) :
            LET row == leads_df.rows[i]
                imp == Imported.rows[i]
            IN  IF imp["url"] \in Urls(call.before)
                THEN /\ row["status"] = LastWithUrl(call.before, imp["url"])["status"]
                     /\ row["notes"] = OrEmpty(LastWithUrl(call.before, imp["url"])["notes"])
                ELSE /\ row["status"] = IF "status" \in call.args.file.cols
                                        THEN imp["status"] ELSE Str(<<"New">>)
                     /\ row["notes"] = IF "notes" \in call.args.file.cols
                                       THEN OrEmpty(imp["notes"]) ELSE Str(<<>>)

\* A re-import in which a known url keeps a status and notes that differ from the
\* imported ones, next to a url that is new and takes the import's own status.
C1_Witness ==
    /\ SyncSucceeded
    /\ "status" \in call.args.file.cols
    /\ \E i \in 1..Len(leads_df.rows) :
          /\ leads_df.rows[i]["url"] \in Urls(call.before)
          /\ leads_df.rows[i]["status"] # Imported.rows[i]["status"]
          /\ leads_df.rows[i]["notes"] # OrEmpty(Imported.rows[i]["notes"])
    /\ \E i \in 1..Len(leads_df.rows) :
          /\ leads_df.rows[i]["url"] \notin Urls(call.before)
          /\ leads_df.rows[i]["status"] # Str(<<"New">>)

MissingRequired(file) == Range(required_columns) \ file.cols

\* C2: a sync_leads of a file that lacks required columns reports failure, its
\* message names exactly the missing columns, no save is issued, and the table in
\* memory and the file on disk are what they were before the call.
C2_MissingColumnsRejected ==
    (call.op = "sync_leads" /\ MissingRequired(call.args.file) # {}) =>
        /\ call.ok
        /\ ~call.result.success
        /\ Head(call.result.error) = "Missing required columns: "
        /\ LET named == Tail(call.result.error)
           IN  /\ { named[i] : i \in DOMAIN named } \ {", "} = MissingRequired(call.args.file)
               /\ Len(named) = 2 * Cardinality(MissingRequired(call.args.file)) - 1
        /\ call.saves = <<>>
        /\ leads_df = call.before
        /\ progress_file = call.beforeFile

\* A rejected import with two missing columns, over a table and a file that hold rows.
C2_Witness ==
    /\ call.op = "sync_leads"
    /\ Cardinality(MissingRequired(call.args.file)) = 2
    /\ ~call.result.success
    /\ Len(leads_df.rows) > 0
    /\ progress_file.exists /\ Len(progress_file.rows) > 0

\* C3, as stated: after a successful sync_leads the urls of the table are the urls
\* of the import, and in a row whose url was in the table before, every field other
\* than status and notes has the imported value.
C3_FieldsTakeImportedValue ==
    SyncSucceeded =>
        /\ Urls(leads_df) = Urls(Imported)
        /\ \A i \in 1..Len(leads_df.rows) :
              leads_df.rows[i]["url"] \in Urls(call.before) =>
                 \A c \in Range(required_columns) :
                    leads_df.rows[i][c] = Imported.rows[i][c]

\* C3, amended: after a successful sync_leads the urls of the table are the urls of
\* the import (rows of the table whose url is not imported are dropped), and in
\* every row the four free-text fields have the imported value as clean_text leaves
\* it ('' for a missing value) and date, url and subreddit have the imported value.
C3_SyncReplacesTable ==
    SyncSucceeded =>
        /\ Urls(leads_df) = Urls(Imported)
        /\ Len(leads_df.rows) = Len(Imported.rows)
        /\ \A i \in 1..Len(leads_df.rows) :
              \A c \in Range(required_columns) :
                 leads_df.rows[i][c] = IF c \in Range(text_columns)
                                       THEN clean_text(Imported.rows[i][c])
                                       ELSE Imported.rows[i][c]

\* A re-import that drops a stored url and overwrites the data of a stored url.
C3_Witness ==
    /\ SyncSucceeded
    /\ Urls(call.before) \ Urls(leads_df) # {}
    /\ \E i \in 1..Len(leads_df.rows) :
          /\ leads_df.rows[i]["url"] \in Urls(call.before)
          /\ leads_df.rows[i]["summary"] # LastWithUrl(call.before, leads_df.rows[i]["url"])["summary"]

\* The index labels of the last call are all labels of the table it ran on.
IndicesKnown ==
    \A k \in DOMAIN call.args.indices :
        \E i \in DOMAIN call.before.index : call.before.index[i] = call.args.indices[k]

\* C4: the status of every record is one of New, In Progress, Contacted, Closed; in
\* particular an update_lead_status or bulk_update_status call that passes any other
\* value for records of the table does not store that value.
C4_InvalidStatusNotStored ==
    ( /\ call.op \in {"update_lead_status", "bulk_update_status"}
      /\ call.args.indices # <<>>
      /\ IndicesKnown
      /\ call.args.value \notin ValidStatuses )
    => \A i \in 1..Len(leads_df.rows) : leads_df.rows[i]["status"] # call.args.value

\* C5: right after a LeadManager is constructed from the persisted table, the notes
\* of every record are a string, never a missing value (notes saved as '' are '').
C5_NotesStringAfterLoad ==
    call.op = "init" => \A i \in 1..Len(leads_df.rows) : ~isna(leads_df.rows[i]["notes"])

\* C6: no two records of the table share a url, also after a sync_leads of a file
\* that holds one url in two rows.
C6_UrlUnique ==
    \A i, j \in 1..Len(leads_df.rows) :
        leads_df.rows[i]["url"] = leads_df.rows[j]["url"] => i = j

\* The line bulk_append_notes adds: "\n[<timestamp>] <text>".
AppendedLine == <<"\n[", call.args.timestamp, "] ">> \o call.args.text

EndsWith(t, suffix) ==
    /\ Len(t) >= Len(suffix)
    /\ SubSeq(t, Len(t) - Len(suffix) + 1, Len(t)) = suffix

Succeeded ==
    /\ call.op \in Mutating
    /\ call.ok
    /\ call.op = "sync_leads" => call.result.success

\* C7: every successful mutating call issues exactly one save, of the whole table
\* as the call leaves it in memory, and that file is what is on disk afterwards; for
\* a bulk call the saved file holds the change for every index of the call.
C7_OneSaveAfterAllChanges ==
    Succeeded =>
        /\ Len(call.saves) = 1
        /\ call.saves[1] = to_csv(leads_df)
        /\ progress_file = call.saves[1]
        /\ call.op = "bulk_update_status" =>
              \A k \in DOMAIN call.args.indices :
                 call.saves[1].rows[Loc(leads_df, call.args.indices[k])]["status"]
                    = call.args.value.s
        /\ call.op = "bulk_append_notes" =>
              \A k \in DOMAIN call.args.indices :
                 EndsWith(call.saves[1].rows[Loc(leads_df, call.args.indices[k])]["notes"],
                          AppendedLine)

\* A bulk status update over two records.
C7_Witness ==
    /\ call.op = "bulk_update_status"
    /\ call.ok
    /\ Len(call.args.indices) = 2
    /\ IndicesKnown
    /\ \A i \in 1..Len(call.before.rows) : call.before.rows[i]["status"] # call.args.value

\* C8: a bulk_append_notes call that returns leaves, in every record of its index
\* list, the previous notes ('' for a missing value) followed by the line
\* "\n[<timestamp>] <text>", with the one timestamp of the call, and leaves the notes
\* of every other record, and the set of records, as they were.
C8_BulkAppendKeepsPrefix ==
    (call.op = "bulk_append_notes" /\ call.ok) =>
        /\ leads_df.index = call.before.index
        /\ \A i \in 1..Len(call.before.rows) :
              LET prev == call.before.rows[i]["notes"]
                  now == leads_df.rows[i]["notes"]
              IN  IF \E k \in DOMAIN call.args.indices :
                        call.args.indices[k] = call.before.index[i]
                  THEN now = Str((IF prev.na THEN <<>> ELSE prev.s) \o AppendedLine)
                  ELSE now = prev

\* A bulk append over two records, one with notes and one whose notes are missing.
C8_Witness ==
    /\ call.op = "bulk_append_notes"
    /\ call.ok
    /\ Len(call.args.indices) = 2
    /\ \E i \in 1..Len(call.before.rows) : call.before.rows[i]["notes"].na
    /\ \E i \in 1..Len(call.before.rows) :
          ~call.before.rows[i]["notes"].na /\ call.before.rows[i]["notes"].s # <<>>

\* The number of rows of df equal to r.
Copies(df, r) == Cardinality({ i \in 1..Len(df.rows) : df.rows[i] = r })

\* The same rows, each as often, in any order.
SameContent(a, b) ==
    \A r \in Range(a.rows) \cup Range(b.rows) : Copies(a, r) = Copies(b, r)

\* C9: save_progress of the table followed by load_progress yields a table with the
\* same records and field values (row order ignored).
C9_SaveLoadRoundTrip ==
    LET loaded == load_progress(save_progress(leads_df))
    IN  loaded # <<>> /\ SameContent(loaded[1], leads_df)

RECURSIVE SumSeq(_)
SumSeq(q) == IF q = <<>> THEN 0 ELSE Head(q) + SumSeq(Tail(q))

Distribution == call.result

\* C10, as stated: for every table, the empty one included, get_status_distribution
\* returns the labels New, In Progress, Contacted, Closed in that order and values
\* that sum to the number of records.
C10_FourLabelsSumToTotal ==
    call.op = "get_status_distribution" =>
        /\ Distribution.labels = status_order
        /\ SumSeq(Distribution.values) = Len(leads_df.rows)

\* C10, amended: for the empty table get_status_distribution returns no label and
\* no value; for any other table it returns the labels New, In Progress, Contacted,
\* Closed in that order, each with the number of records of that status (0 when
\* there is none), and the values sum to the number of records whose status is one
\* of the four labels.
C10_StatusDistribution ==
    call.op = "get_status_distribution" =>
        IF Len(leads_df.rows) = 0
        THEN Distribution.labels = <<>> /\ Distribution.values = <<>>
        ELSE /\ Distribution.labels = <<"New", "In Progress", "Contacted", "Closed">>
             /\ Len(Distribution.values) = 4
             /\ \A k \in 1..4 :
                   Distribution.values[k] =
                      Cardinality({ i \in 1..Len(leads_df.rows) :
                         /\ ~leads_df.rows[i]["status"].na
                         /\ leads_df.rows[i]["status"].s = <<Distribution.labels[k]>> })
             /\ SumSeq(Distribution.values) =
                   Cardinality({ i \in 1..Len(leads_df.rows) :
                                   leads_df.rows[i]["status"] \in ValidStatuses })

\* A distribution of a table that has a status with no record and a status with one.
C10_Witness ==
    /\ call.op = "get_status_distribution"
    /\ Len(leads_df.rows) = 2
    /\ \E k \in 1..4 : Distribution.values[k] = 0
    /\ \E k \in 1..4 : Distribution.values[k] > 0

\* The number of records of the table whose status is status_order[k].
InStatus(k) ==
    Cardinality({ i \in 1..Len(leads_df.rows) :
                    /\ ~leads_df.rows[i]["status"].na
                    /\ leads_df.rows[i]["status"].s = <<status_order[k]>> })

\* The number of records whose status is none of the four.
OutsideOrder ==
    Cardinality({ i \in 1..Len(leads_df.rows) :
                    leads_df.rows[i]["status"] \notin ValidStatuses })

Funnel == call.result

\* C11, as stated: for every table get_funnel_data returns one entry per status in
\* the order New, In Progress, Contacted, Closed, whose count is the number of
\* records minus the records of the earlier statuses; the first count is the number
\* of records, the counts do not increase, and each count is the number of records
\* in that status or a later one.
C11_FunnelForEveryTable ==
    call.op = "get_funnel_data" =>
        /\ Len(Funnel) = 4
        /\ \A k \in 1..4 :
              /\ Funnel[k].status = status_order[k]
              /\ Funnel[k].count = Len(leads_df.rows) - SumSeq([j \in 1..k - 1 |-> InStatus(j)])
              /\ Funnel[k].count = SumSeq([j \in 1..4 - k + 1 |-> InStatus(k + j - 1)])
        /\ Funnel[1].count = Len(leads_df.rows)
        /\ \A k \in 1..3 : Funnel[k + 1].count <= Funnel[k].count

\* C11, amended: for the empty table get_funnel_data returns no entry; for any
\* other table it returns one entry per status in the order New, In Progress,
\* Contacted, Closed, whose count is the number of records minus the records of the
\* earlier statuses; the first count is the number of records, the counts do not
\* increase, and each count is the number of records in that status or a later one
\* plus the number of records whose status is none of the four.
C11_FunnelCounts ==
    call.op = "get_funnel_data" =>
        IF Len(leads_df.rows) = 0 THEN Funnel = <<>>
        ELSE /\ Len(Funnel) = 4
             /\ \A k \in 1..4 :
                   /\ Funnel[k].status = <<"New", "In Progress", "Contacted", "Closed">>[k]
                   /\ Funnel[k].count =
                         Len(leads_df.rows) - SumSeq([j \in 1..k - 1 |-> InStatus(j)])
                   /\ Funnel[k].count =
                         SumSeq([j \in 1..4 - k + 1 |-> InStatus(k + j - 1)]) + OutsideOrder
             /\ Funnel[1].count = Len(leads_df.rows)
             /\ \A k \in 1..3 : Funnel[k + 1].count <= Funnel[k].count

\* A funnel of two records in two statuses, the second entry smaller than the first.
C11_Witness ==
    /\ call.op = "get_funnel_data"
    /\ Len(leads_df.rows) = 2
    /\ OutsideOrder = 0
    /\ Funnel[2].count < Funnel[1].count
    /\ Funnel[4].count > 0

\* Whether two pairs num / den stand for the same number.
SameNumber(a, b) == a.num * b.den = b.num * a.den

\* The characters of the notes of row i of the table the last call ran on.
NotesLenBefore(i) ==
    IF call.before.rows[i]["notes"].na THEN 0
    ELSE str_len(call.before.rows[i]["notes"].s)

WithNotesBefore == { i \in 1..Len(call.before.rows) : NotesLenBefore(i) > 0 }

RECURSIVE SumOver(_)
SumOver(rows) ==
    IF rows = {} THEN 0
    ELSE LET i == CHOOSE j \in rows : TRUE
         IN  NotesLenBefore(i) + SumOver(rows \ {i})

\* C12: get_response_stats returns the number of records with non-empty notes, that
\* number / total records x 100, and the mean notes length taken over the records
\* with non-empty notes only (0 when there is none).
C12_MeanOverRecordsWithNotes ==
    (call.op = "get_response_stats" /\ Len(call.before.rows) > 0) =>
        /\ call.result.leads_with_notes = Cardinality(WithNotesBefore)
        /\ SameNumber(call.result.notes_percentage,
                      [num |-> Cardinality(WithNotesBefore) * 100,
                       den |-> Len(call.before.rows)])
        /\ SameNumber(call.result.avg_notes_length,
                      IF WithNotesBefore = {} THEN [num |-> 0, den |-> 1]
                      ELSE [num |-> SumOver(WithNotesBefore),
                            den |-> Cardinality(WithNotesBefore)])

Aggregations ==
    { "get_status_distribution", "get_subreddit_distribution", "get_daily_activity",
      "get_funnel_data", "get_conversion_rates", "get_response_stats" }

\* C13: every aggregation leaves the table of the repository unchanged: after the
\* call get_leads returns the same records with the same field values, the date and
\* notes fields included, as before it.
C13_AggregationsLeaveTable ==
    call.op \in Aggregations => leads_df = call.before

Updates ==
    {"update_lead_status", "update_lead_notes", "bulk_update_status", "bulk_append_notes"}

\* The field the last call is to change.
TargetField ==
    IF call.op \in {"update_lead_status", "bulk_update_status"} THEN "status" ELSE "notes"

\* Row i of the table the last call ran on has one of the index labels of the call.
Targeted(i) ==
    \E k \in DOMAIN call.args.indices : call.args.indices[k] = call.before.index[i]

\* C14: update_lead_status, update_lead_notes, bulk_update_status and
\* bulk_append_notes add and remove no record and change only the targeted field of
\* the targeted records, also when an index of the call is no label of the table.
C14_UpdatesChangeOnlyTarget ==
    call.op \in Updates =>
        /\ leads_df.index = call.before.index
        /\ Len(leads_df.rows) = Len(call.before.rows)
        /\ \A i \in 1..Len(call.before.rows) : \A c \in AllColumns :
              (~Targeted(i) \/ c # TargetField) =>
                  leads_df.rows[i][c] = call.before.rows[i][c]

====
